---------------------------- MODULE Spec2Model ----------------------------
(***************************************************************************)
(* Model of the Tapo camera video downloader (src/main.py).                *)
(*                                                                         *)
(* One behaviour is a series of runs of main() against the same camera     *)
(* catalog and the same output directory.  The files of the output         *)
(* directory (disk) are the only state that survives from one run to the   *)
(* next.  The camera, the pytapo Downloader and the file system are the    *)
(* environment: their answers (a call returns or raises, a transfer leaves *)
(* no file, a partial file or the whole file) are nondeterministic.        *)
(***************************************************************************)
EXTENDS Integers, Sequences, FiniteSets, TLC

(***************************************************************************)
(* Bounds of the model.                                                    *)
(***************************************************************************)
\* number of runs of main() in one behaviour
MaxRuns == 2
\* recordings in the camera's catalog, over all dates
MaxRecs == 2
\* length of a local day, in seconds of the model's clock
SecondsPerDay == 2

\* startTime of the recordings of the catalog
StartTimes == {1, 2}

\* endTime - startTime of the recordings of the catalog
Durations == {1}

\* the date buckets the camera's index may hold, in index order
DateKeys == {1, 2}

\* values getTimeCorrection may return
TimeCorrections == {1}

\* "if i % 10 == 0": the statistics are shown every 10 files
ReportEvery == 10

Recordings == {[startTime |-> s, endTime |-> s + d] : s \in StartTimes, d \in Durations}

\* what else the camera reports of a recording: its length and its vedio_type
Variants == {[duration |-> 1, vedio_type |-> "motion"],
             [duration |-> 2, vedio_type |-> "timing"]}

\* recordings that may share a startTime and differ in endTime and type
RecordingsDup ==
    {[startTime |-> s, endTime |-> s + v.duration, vedio_type |-> v.vedio_type] :
        s \in StartTimes, v \in Variants}

SeqsUpTo(S, n) == UNION {[1..k -> S] : k \in 0..n}

RECURSIVE Concat(_)
Concat(seqs) ==
    IF seqs = <<>> THEN <<>> ELSE Head(seqs) \o Concat(Tail(seqs))

\* camera catalogs: one sequence of recordings per date bucket
Catalogs ==
    {c \in SeqsUpTo(SeqsUpTo(Recordings, MaxRecs), Cardinality(DateKeys)) :
        Len(Concat(c)) <= MaxRecs}

\* catalogs of one date whose recordings may share a startTime
CatalogsDup == SeqsUpTo(SeqsUpTo(RecordingsDup, MaxRecs), 1)

(***************************************************************************)
(* PathPlanner: format_filename and get_date_folder.                       *)
(* datetime.fromtimestamp is modelled by the split of the timestamp into   *)
(* the local day (which fixes YYYY, MM and DD) and the second of that day  *)
(* (which fixes HH, MM and SS).                                            *)
(***************************************************************************)
fromtimestamp(timestamp) ==
    [day |-> timestamp \div SecondsPerDay, sec |-> timestamp % SecondsPerDay]

\* "%Y%m%d_%H%M%S" - int(timestamp) ".mp4"
format_filename(timestamp) ==
    LET dt == fromtimestamp(timestamp)
    IN  <<dt.day, dt.sec, timestamp>>

\* os.path.join(YYYY, MM, DD)
get_date_folder(timestamp) ==
    LET dt == fromtimestamp(timestamp)
    IN  <<dt.day>>

\* os.path.join(output_dir, filename), output_dir = base_output_dir/date_folder
\* mutant: the file is named after both ends of the recording
filepath_WithEndTime(recording) ==
    <<get_date_folder(recording.startTime),
      format_filename(recording.startTime) \o <<recording.endTime>>>>

filepath(recording) ==
    <<get_date_folder(recording.startTime), format_filename(recording.startTime)>>

(***************************************************************************)
(* CatalogIndexer: the camera's responses and their lenient parsing.       *)
(* A response is a tagged tree: [kind |-> "list", items |-> <<...>>]; an   *)
(* item is [kind |-> "dict", entries |-> <<[key, value], ...>>]; a key is  *)
(* <<prefix, suffix>>; a value is [kind |-> "dict", fields |-> record] or  *)
(* some other tagged node.                                                 *)
(***************************************************************************)
\* the response of tapo.getRecordingsList for a catalog
getRecordingsList(catalog) ==
    [kind |-> "list",
     items |-> [k \in 1..Len(catalog) |->
                 [kind |-> "dict",
                  entries |-> <<[key |-> <<"search_results_", k>>,
                                 value |-> [kind |-> "dict", fields |-> [date |-> k]]]>>]]]

\* the response of tapo.getRecordings(date) for a catalog
getRecordings(catalog, date) ==
    [kind |-> "list",
     items |-> [k \in 1..Len(catalog[date]) |->
                 [kind |-> "dict",
                  entries |-> <<[key |-> <<"search_video_results_", k>>,
                                 value |-> [kind |-> "dict", fields |-> catalog[date][k]]]>>]]]

IsDateEntry(e) ==
    /\ e.key[1] = "search_results_"
    /\ e.value.kind = "dict"
    /\ "date" \in DOMAIN e.value.fields

\* mutant: a recording entry is taken without looking for its endTime
IsRecordingEntry_StartOnly(e) ==
    /\ e.key[1] = "search_video_results_"
    /\ e.value.kind = "dict"
    /\ "startTime" \in DOMAIN e.value.fields

IsRecordingEntry(e) ==
    /\ e.key[1] = "search_video_results_"
    /\ e.value.kind = "dict"
    /\ "startTime" \in DOMAIN e.value.fields
    /\ "endTime" \in DOMAIN e.value.fields

\* the entries of the dict items of a list response, in response order
ItemEntries(data) ==
    IF data.kind = "list"
    THEN Concat([k \in 1..Len(data.items) |->
                   IF data.items[k].kind = "dict" THEN data.items[k].entries ELSE <<>>])
    ELSE <<>>

extract_dates(dates_data) ==
    LET kept == SelectSeq(ItemEntries(dates_data), IsDateEntry)
    IN  [k \in 1..Len(kept) |-> kept[k].value.fields.date]

extract_recordings(recordings_data) ==
    LET kept == SelectSeq(ItemEntries(recordings_data), IsRecordingEntry)
    IN  [k \in 1..Len(kept) |-> kept[k].value.fields]

(***************************************************************************)
(* Responses the parsers may be given: nothing, a mapping instead of a     *)
(* list, or a list whose items are mappings of entries or something else;  *)
(* an entry has a recognised or an unrecognised key and a value that is a  *)
(* mapping, with or without the fields looked for, or no mapping at all.   *)
(***************************************************************************)
MaxItems == 2

Mapping(fields) == [kind |-> "dict", fields |-> fields]

EntryValues ==
    {[kind |-> "str"],
     Mapping([f \in {} |-> 0]),
     Mapping([date |-> 1]),
     Mapping([date |-> 2]),
     Mapping([startTime |-> 1, endTime |-> 2]),
     Mapping([startTime |-> 2, endTime |-> 3]),
     Mapping([startTime |-> 1]),
     Mapping([endTime |-> 2]),
     Mapping([date |-> 1, startTime |-> 1, endTime |-> 2])}

EntryKeys == {<<"search_results_", 1>>, <<"search_video_results_", 1>>, <<"other_", 1>>}

Entries == {[key |-> k, value |-> v] : k \in EntryKeys, v \in EntryValues}

\* an item: no mapping, an empty mapping, a mapping of one entry, or a mapping
\* with an unrecognised entry before another entry
Items ==
    {[kind |-> "str"], [kind |-> "dict", entries |-> <<>>]}
    \cup {[kind |-> "dict", entries |-> <<e>>] : e \in Entries}
    \cup {[kind |-> "dict",
           entries |-> <<[key |-> <<"other_", 0>>, value |-> [kind |-> "str"]], e>>] :
             e \in {x \in Entries : x.key[1] # "other_"}}

Responses ==
    {[kind |-> "none"], [kind |-> "dict"]}
    \cup {[kind |-> "list", items |-> r] : r \in SeqsUpTo(Items, MaxItems)}

(***************************************************************************)
(* RetentionManager: the request shapes of try_delete_recording, in the    *)
(* order of the delete_attempts list.                                      *)
(***************************************************************************)
delete_attempts == <<"deleteRecording", "do">>

VARIABLES
    run,                    \* number of the current run of main()
    pc,                     \* position of the run in main / download_all_videos
    ending,                 \* how the run ended: "none" while it is running
    DELETE_AFTER_DOWNLOAD,  \* the global flag, set from --delete
    remote,                 \* the camera's catalog
    disk,                   \* output directory: path -> "absent" | "partial" | "complete"
    dirs,                   \* directories made under the output directory
    dates,                  \* download_all_videos: dates
    date_idx,               \* position of the loop over dates
    all_recordings,         \* download_all_videos: all_recordings
    total_count,            \* download_all_videos: total_count
    time_correction,        \* download_all_videos: time_correction
    i,                      \* loop index of enumerate(all_recordings, 1)
    result,                 \* value returned by download_recording
    successful, failed, skipped, deleted,
    attempt,                \* try_delete_recording: position in delete_attempts, 0 outside
    outcomes,               \* history: the result of each recording processed in this run
    started,                \* history: loop indices whose Downloader was started
    requests,               \* history: requests sent by the latest try_delete_recording
    delete_calls,           \* history: calls of try_delete_recording in this run
    prev,                   \* history: how the previous run ended
    fetches,                \* history: calls of tapo.getTimeCorrection in this run
    passed,                 \* history: the time_correction given to each Downloader
    elapsed,                \* datetime.now() - start_time, in seconds
    remaining,              \* download_all_videos: remaining
    eta_seconds,            \* download_all_videos: eta_seconds, a fraction
    recomputed,             \* history: loop indices at which the statistics were made
    data,                   \* extract_dates / extract_recordings: the response given
    extracted,              \* extract_dates / extract_recordings: the list returned
    status,                 \* download_recording: the latest status of the stream
    last_percent,           \* download_recording: last_percent
    report,                 \* history: what was printed for the latest status
    signals,                \* history: percentage lines printed for this transfer
    labels                  \* history: action lines printed for this transfer

vars == <<run, pc, ending, DELETE_AFTER_DOWNLOAD, remote, disk, dirs, dates, date_idx,
          all_recordings, total_count, time_correction, i, result, successful, failed,
          skipped, deleted, attempt, outcomes, started, requests, delete_calls, prev,
          fetches, passed, elapsed, remaining, eta_seconds, recomputed, data, extracted,
          status, last_percent, report, signals, labels>>

scanVars == <<dates, date_idx, all_recordings, total_count, time_correction>>
counters == <<successful, failed, skipped, deleted>>
history == <<outcomes, started, requests, delete_calls>>
statsVars == <<elapsed, remaining, eta_seconds, recomputed>>
parseVars == <<data, extracted>>
progressVars == <<status, last_percent, report, signals, labels>>
aux == <<fetches, passed, statsVars, parseVars, progressVars>>
runVars == <<run, pc, ending, DELETE_AFTER_DOWNLOAD, remote, disk, dirs, scanVars, i, result,
             counters, attempt, history, prev, fetches, passed>>

\* every path a recording of the model can map to
Paths == {filepath(r) : r \in Recordings \cup RecordingsDup}

\* os.path.exists(filepath)
exists(path) == path \in DOMAIN disk /\ disk[path] # "absent"

\* the file at path becomes state; every other file is left as it is
WriteFile(path, state) == [disk EXCEPT ![path] = state]

\* the state of the per-run variables when main() starts
FreshRun ==
    /\ pc = "connect"
    /\ ending = "none"
    /\ dates = <<>>
    /\ date_idx = 0
    /\ all_recordings = <<>>
    /\ total_count = 0
    /\ time_correction = 0
    /\ i = 0
    /\ result = "none"
    /\ successful = 0
    /\ failed = 0
    /\ skipped = 0
    /\ deleted = 0
    /\ attempt = 0
    /\ outcomes = <<>>
    /\ started = <<>>
    /\ requests = <<>>
    /\ delete_calls = 0
    /\ fetches = 0
    /\ passed = <<>>
    /\ elapsed = 0
    /\ remaining = 0
    /\ eta_seconds = [num |-> 0, den |-> 1]
    /\ recomputed = <<>>

\* no response is being parsed
NoParse ==
    /\ data = [kind |-> "none"]
    /\ extracted = [fn |-> "none", out |-> <<>>]

\* no stream of a Downloader is being read
NoStream ==
    /\ status = [currentAction |-> "none", progress |-> 0, total |-> 0]
    /\ last_percent = -1
    /\ report = "none"
    /\ signals = 0
    /\ labels = 0

Init ==
    /\ run = 1
    /\ DELETE_AFTER_DOWNLOAD \in BOOLEAN
    /\ remote \in Catalogs
    /\ disk = [p \in Paths |-> "absent"]
    /\ dirs = {}
    /\ prev = [ending |-> "none", failures |-> FALSE]
    /\ FreshRun
    /\ NoParse
    /\ NoStream

\* the run ends: main() returns
Finish(how) ==
    /\ pc' = "done"
    /\ ending' = how

(***************************************************************************)
(* main(): connection (main.py 345-350).                                   *)
(***************************************************************************)
ConnectOk ==
    /\ pc = "connect"
    /\ pc' = "getRecordingsList"
    /\ UNCHANGED <<run, ending, DELETE_AFTER_DOWNLOAD, remote, disk, dirs, scanVars, i,
                   result, counters, attempt, history, prev, aux>>

\* Tapo(...) raises: caught by main's except Exception
ConnectRaises ==
    /\ pc = "connect"
    /\ Finish("critical")
    /\ UNCHANGED <<run, DELETE_AFTER_DOWNLOAD, remote, disk, dirs, scanVars, i, result,
                   counters, attempt, history, prev, aux>>

(***************************************************************************)
(* download_all_videos: Scanning and Counting (main.py 190-253).           *)
(***************************************************************************)
GetRecordingsList ==
    /\ pc = "getRecordingsList"
    /\ dirs' = dirs \cup {<<>>}
    /\ dates' = extract_dates(getRecordingsList(remote))
    /\ IF dates' = <<>>
       THEN Finish("nothing") /\ UNCHANGED date_idx
       ELSE pc' = "getRecordings" /\ date_idx' = 1 /\ UNCHANGED ending
    /\ UNCHANGED <<run, DELETE_AFTER_DOWNLOAD, remote, disk, all_recordings, total_count,
                   time_correction, i, result, counters, attempt, history, prev, aux>>

\* one iteration of "for date in dates"
GetRecordings ==
    /\ pc = "getRecordings"
    /\ LET recordings == extract_recordings(getRecordings(remote, dates[date_idx]))
       IN  all_recordings' = all_recordings \o recordings
    /\ IF date_idx < Len(dates)
       THEN date_idx' = date_idx + 1 /\ UNCHANGED pc
       ELSE pc' = "count" /\ UNCHANGED date_idx
    /\ UNCHANGED <<run, ending, DELETE_AFTER_DOWNLOAD, remote, disk, dirs, dates,
                   total_count, time_correction, i, result, counters, attempt, history,
                   prev, aux>>

\* mutant: no early return when there is nothing to download
Count_NoEarlyReturn ==
    /\ pc = "count"
    /\ total_count' = Len(all_recordings)
    /\ pc' = "getTimeCorrection"
    /\ UNCHANGED <<run, ending, DELETE_AFTER_DOWNLOAD, remote, disk, dirs, dates, date_idx,
                   all_recordings, time_correction, i, result, counters, attempt, history,
                   prev, aux>>

Count ==
    /\ pc = "count"
    /\ total_count' = Len(all_recordings)
    /\ IF total_count' = 0
       THEN Finish("nothing")
       ELSE pc' = "getTimeCorrection" /\ UNCHANGED ending
    /\ UNCHANGED <<run, DELETE_AFTER_DOWNLOAD, remote, disk, dirs, dates, date_idx,
                   all_recordings, time_correction, i, result, counters, attempt, history,
                   prev, aux>>

\* the offset is fetched and the counters of the batch are created
GetTimeCorrection ==
    /\ pc = "getTimeCorrection"
    /\ time_correction' \in TimeCorrections
    /\ successful' = 0
    /\ failed' = 0
    /\ skipped' = 0
    /\ deleted' = 0
    /\ i' = 0
    /\ fetches' = fetches + 1
    /\ pc' = "loop"
    /\ UNCHANGED <<run, ending, DELETE_AFTER_DOWNLOAD, remote, disk, dirs, dates, date_idx,
                   all_recordings, total_count, result, attempt, history, prev, passed,
                   statsVars, parseVars, progressVars>>

\* a remote query raises: it leaves download_all_videos and is caught by
\* main's except Exception
RemoteQueryRaises ==
    /\ pc \in {"getRecordingsList", "getRecordings", "getTimeCorrection"}
    /\ Finish("critical")
    /\ UNCHANGED <<run, DELETE_AFTER_DOWNLOAD, remote, disk, dirs, scanVars, i, result,
                   counters, attempt, history, prev, aux>>

(***************************************************************************)
(* download_recording (main.py 71-134).                                    *)
(***************************************************************************)
\* mutant: only a complete file counts as present
decide_CompleteOnly(recording) ==
    IF disk[filepath(recording)] = "complete" THEN "Skip" ELSE "Proceed"

\* mutant: the file is looked for in base_output_dir, not in the date folder
decide_BaseDir(recording) ==
    IF exists(<<<<>>, format_filename(recording.startTime)>>) THEN "Skip" ELSE "Proceed"

\* the decision of lines 86-93: existence of the target path alone decides
decide(recording) ==
    IF exists(filepath(recording)) THEN "Skip" ELSE "Proceed"

\* mutant: the offset is asked of the camera again for every recording
NextRecording_Refetch ==
    /\ pc = "loop"
    /\ i < total_count
    /\ i' = i + 1
    /\ fetches' = fetches + 1
    /\ pc' = "plan"
    /\ UNCHANGED <<run, ending, DELETE_AFTER_DOWNLOAD, remote, disk, dirs, scanVars, result,
                   counters, attempt, history, prev, passed, statsVars, parseVars,
                   progressVars>>

\* "for i, recording in enumerate(all_recordings, 1)": the next recording is
\* handed to download_recording
NextRecording ==
    /\ pc = "loop"
    /\ i < total_count
    /\ i' = i + 1
    /\ pc' = "plan"
    /\ UNCHANGED <<run, ending, DELETE_AFTER_DOWNLOAD, remote, disk, dirs, scanVars, result,
                   counters, attempt, history, prev, aux>>

\* lines 73-97: the date folder is made; an existing file ends the call with
\* "skipped", otherwise the Downloader is created and its stream is awaited
Plan ==
    /\ pc = "plan"
    /\ LET recording == all_recordings[i]
       IN  /\ dirs' = dirs \cup {get_date_folder(recording.startTime)}
           /\ IF decide(recording) = "Skip"
              THEN /\ result' = "skipped"
                   /\ pc' = "tally"
                   /\ UNCHANGED <<started, passed>>
              ELSE /\ pc' = "transfer"
                   /\ started' = Append(started, i)
                   /\ passed' = Append(passed, time_correction)
                   /\ UNCHANGED result
    /\ UNCHANGED <<run, ending, DELETE_AFTER_DOWNLOAD, remote, disk, scanVars, i, counters,
                   attempt, outcomes, requests, delete_calls, prev, fetches, statsVars,
                   parseVars, progressVars>>

\* mutant: the planning lines are inside the try block, their exception is a
\* failed download
PlanRaises_CountedFailed ==
    /\ pc = "plan"
    /\ result' = "False"
    /\ pc' = "tally"
    /\ UNCHANGED <<run, ending, DELETE_AFTER_DOWNLOAD, remote, disk, dirs, scanVars, i,
                   counters, attempt, history, prev, aux>>

\* os.makedirs or os.path.getsize raises: these lines are outside the try
\* block, the exception leaves download_all_videos and is caught by main
PlanRaises ==
    /\ pc = "plan"
    /\ Finish("critical")
    /\ UNCHANGED <<run, DELETE_AFTER_DOWNLOAD, remote, disk, dirs, scanVars, i, result,
                   counters, attempt, history, prev, aux>>

\* the stream of downloader.download() ends: the file is written, True is returned
TransferSucceeds ==
    /\ pc = "transfer"
    /\ disk' = WriteFile(filepath(all_recordings[i]), "complete")
    /\ result' = "True"
    /\ pc' = "tally"
    /\ UNCHANGED <<run, ending, DELETE_AFTER_DOWNLOAD, remote, dirs, scanVars, i, counters,
                   attempt, history, prev, aux>>

\* mutant: no except clause, the exception leaves download_recording
TransferRaises_Propagates ==
    /\ pc = "transfer"
    /\ \E left \in {"absent", "partial"} :
           disk' = WriteFile(filepath(all_recordings[i]), left)
    /\ Finish("critical")
    /\ UNCHANGED <<run, DELETE_AFTER_DOWNLOAD, remote, dirs, scanVars, i, result, counters,
                   attempt, history, prev, aux>>

\* the Downloader raises an Exception: lines 132-134 return False.  What the
\* Downloader left at the target path is its own affair: nothing or a part.
TransferRaises ==
    /\ pc = "transfer"
    /\ \E left \in {"absent", "partial"} :
           disk' = WriteFile(filepath(all_recordings[i]), left)
    /\ result' = "False"
    /\ pc' = "tally"
    /\ UNCHANGED <<run, ending, DELETE_AFTER_DOWNLOAD, remote, dirs, scanVars, i, counters,
                   attempt, history, prev, aux>>

(***************************************************************************)
(* download_all_videos: the accounting of one result (main.py 258-266).    *)
(***************************************************************************)
\* mutant: the else branch is lost, a failure is counted nowhere
Tallied_DropFailed(res) ==
    [successful |-> IF res = "True" THEN successful + 1 ELSE successful,
     skipped    |-> IF res = "skipped" THEN skipped + 1 ELSE skipped,
     failed     |-> failed]

\* mutant: successful counts every download that was attempted
Tallied_CountsAttempts(res) ==
    [successful |-> IF res # "skipped" THEN successful + 1 ELSE successful,
     skipped    |-> IF res = "skipped" THEN skipped + 1 ELSE skipped,
     failed     |-> IF res \notin {"skipped", "True"} THEN failed + 1 ELSE failed]

Tallied(res) ==
    [successful |-> IF res = "True" THEN successful + 1 ELSE successful,
     skipped    |-> IF res = "skipped" THEN skipped + 1 ELSE skipped,
     failed     |-> IF res \notin {"skipped", "True"} THEN failed + 1 ELSE failed]

\* mutant: "if result:" instead of "result == True": "skipped" is truthy
CallsDelete_Truthy(res) == res # "False"

\* whether the branch taken for res calls try_delete_recording
CallsDelete(res) == res # "skipped" /\ res = "True"

\* mutant: a failed download is tried again
Tally_Retry ==
    /\ pc = "tally"
    /\ successful' = Tallied(result).successful
    /\ skipped' = Tallied(result).skipped
    /\ failed' = Tallied(result).failed
    /\ outcomes' = Append(outcomes, result)
    /\ pc' = IF result = "False" THEN "plan"
             ELSE IF CallsDelete(result) THEN "try_delete" ELSE "stats"
    /\ UNCHANGED <<run, ending, DELETE_AFTER_DOWNLOAD, remote, disk, dirs, scanVars, i,
                   result, deleted, attempt, started, requests, delete_calls, prev, aux>>

Tally ==
    /\ pc = "tally"
    /\ successful' = Tallied(result).successful
    /\ skipped' = Tallied(result).skipped
    /\ failed' = Tallied(result).failed
    /\ outcomes' = Append(outcomes, result)
    /\ pc' = IF CallsDelete(result) THEN "try_delete" ELSE "stats"
    /\ UNCHANGED <<run, ending, DELETE_AFTER_DOWNLOAD, remote, disk, dirs, scanVars, i,
                   result, deleted, attempt, started, requests, delete_calls, prev, aux>>

(***************************************************************************)
(* try_delete_recording (main.py 137-185).                                 *)
(***************************************************************************)
\* mutant: the guard on the flag is lost
TryDelete_NoGuard ==
    /\ pc = "try_delete"
    /\ delete_calls' = delete_calls + 1
    /\ requests' = <<>>
    /\ pc' = "delete"
    /\ attempt' = 1
    /\ UNCHANGED <<run, ending, DELETE_AFTER_DOWNLOAD, remote, disk, dirs, scanVars, i,
                   result, counters, outcomes, started, prev, aux>>

\* the call of line 263 and the guard of lines 139-140
TryDelete ==
    /\ pc = "try_delete"
    /\ delete_calls' = delete_calls + 1
    /\ requests' = <<>>
    /\ IF ~DELETE_AFTER_DOWNLOAD
       THEN pc' = "stats" /\ UNCHANGED attempt
       ELSE pc' = "delete" /\ attempt' = 1
    /\ UNCHANGED <<run, ending, DELETE_AFTER_DOWNLOAD, remote, disk, dirs, scanVars, i,
                   result, counters, outcomes, started, prev, aux>>

\* mutant: no return after a request that went through, the next shape is sent too
DeleteAttemptOk_Continue ==
    /\ pc = "delete"
    /\ requests' = Append(requests, [index |-> i, method |-> delete_attempts[attempt],
                                      raised |-> FALSE])
    /\ IF attempt < Len(delete_attempts)
       THEN attempt' = attempt + 1 /\ UNCHANGED <<pc, deleted>>
       ELSE pc' = "stats" /\ deleted' = deleted + 1 /\ attempt' = 0
    /\ UNCHANGED <<run, ending, DELETE_AFTER_DOWNLOAD, remote, disk, dirs, scanVars, i,
                   result, successful, failed, skipped, outcomes, started, delete_calls,
                   prev, aux>>

\* tapo.executeFunction returns for the current shape: True is returned and
\* line 264 counts the deletion
DeleteAttemptOk ==
    /\ pc = "delete"
    /\ requests' = Append(requests, [index |-> i, method |-> delete_attempts[attempt],
                                      raised |-> FALSE])
    /\ deleted' = deleted + 1
    /\ attempt' = 0
    /\ pc' = "stats"
    /\ UNCHANGED <<run, ending, DELETE_AFTER_DOWNLOAD, remote, disk, dirs, scanVars, i,
                   result, successful, failed, skipped, outcomes, started, delete_calls,
                   prev, aux>>

\* tapo.executeFunction raises for the current shape: the next shape is tried;
\* after the last one False is returned
DeleteAttemptRaises ==
    /\ pc = "delete"
    /\ requests' = Append(requests, [index |-> i, method |-> delete_attempts[attempt],
                                      raised |-> TRUE])
    /\ IF attempt < Len(delete_attempts)
       THEN attempt' = attempt + 1 /\ UNCHANGED pc
       ELSE pc' = "stats" /\ attempt' = 0
    /\ UNCHANGED <<run, ending, DELETE_AFTER_DOWNLOAD, remote, disk, dirs, scanVars, i,
                   result, counters, outcomes, started, delete_calls, prev, aux>>

(***************************************************************************)
(* download_all_videos: statistics and summary (main.py 268-299).          *)
(***************************************************************************)
\* elapsed.total_seconds() / i
avg_time(seconds, n) == [num |-> seconds, den |-> n]

\* the product of a count and a fraction
Times(n, q) == [num |-> n * q.num, den |-> q.den]

\* mutant: the statistics are made every 10 files only, not on the last file
Stats_EveryTenOnly ==
    /\ pc = "stats"
    /\ IF i % ReportEvery = 0
       THEN /\ remaining' = total_count - i
            /\ eta_seconds' = IF i > 0 THEN Times(total_count - i, avg_time(elapsed, i))
                                        ELSE eta_seconds
            /\ recomputed' = Append(recomputed, i)
       ELSE UNCHANGED <<remaining, eta_seconds, recomputed>>
    /\ pc' = "loop"
    /\ UNCHANGED <<run, ending, DELETE_AFTER_DOWNLOAD, remote, disk, dirs, scanVars, i,
                   result, counters, attempt, history, prev, fetches, passed, elapsed,
                   parseVars, progressVars>>

\* end of one iteration of the loop: the statistics of lines 268-280
Stats ==
    /\ pc = "stats"
    /\ IF i % ReportEvery = 0 \/ i = total_count
       THEN /\ remaining' = total_count - i
            /\ eta_seconds' = IF i > 0 THEN Times(total_count - i, avg_time(elapsed, i))
                                        ELSE eta_seconds
            /\ recomputed' = Append(recomputed, i)
       ELSE UNCHANGED <<remaining, eta_seconds, recomputed>>
    /\ pc' = "loop"
    /\ UNCHANGED <<run, ending, DELETE_AFTER_DOWNLOAD, remote, disk, dirs, scanVars, i,
                   result, counters, attempt, history, prev, fetches, passed, elapsed,
                   parseVars, progressVars>>

\* the loop is exhausted: the final statistics are printed and main returns
Summary ==
    /\ pc = "loop"
    /\ i = total_count
    /\ Finish("completed")
    /\ UNCHANGED <<run, DELETE_AFTER_DOWNLOAD, remote, disk, dirs, scanVars, i, result,
                   counters, attempt, history, prev, aux>>

(***************************************************************************)
(* main(): KeyboardInterrupt (main.py 355-357).  The interrupt is no       *)
(* Exception, so no except clause of download_recording or of              *)
(* try_delete_recording catches it: it ends download_all_videos wherever   *)
(* that is.  The action is the point at which the interrupt is raised in   *)
(* the program.  A transfer in flight is abandoned; what its Downloader    *)
(* had written by then is left at the target path.                         *)
(***************************************************************************)
Running == pc # "done"

\* mutant: the interrupt is booked as a failed download before it ends the run
UserInterrupt_CountsFailure ==
    /\ Running
    /\ IF pc = "transfer"
       THEN \E left \in {"absent", "partial", "complete"} :
               disk' = WriteFile(filepath(all_recordings[i]), left)
       ELSE UNCHANGED disk
    /\ Finish("interrupted")
    /\ failed' = failed + 1
    /\ UNCHANGED <<run, DELETE_AFTER_DOWNLOAD, remote, dirs, scanVars, i, result,
                   successful, skipped, deleted, attempt, history, prev, aux>>

UserInterrupt ==
    /\ Running
    /\ IF pc = "transfer"
       THEN \E left \in {"absent", "partial", "complete"} :
               disk' = WriteFile(filepath(all_recordings[i]), left)
       ELSE UNCHANGED disk
    /\ Finish("interrupted")
    /\ UNCHANGED <<run, DELETE_AFTER_DOWNLOAD, remote, dirs, scanVars, i, result, counters,
                   attempt, history, prev, aux>>

\* the exit status of the process: main() prints in both except clauses and
\* returns, and nothing calls sys.exit, so the interpreter ends normally
exit_status(how) ==
    CASE how = "interrupted" -> 0
      [] how = "critical" -> 0
      [] OTHER -> 0

(***************************************************************************)
(* The program is started again on the same output directory.              *)
(***************************************************************************)
NextRun ==
    /\ pc = "done"
    /\ run < MaxRuns
    /\ run' = run + 1
    /\ prev' = [ending |-> ending, failures |-> failed > 0]
    /\ DELETE_AFTER_DOWNLOAD' \in BOOLEAN
    /\ pc' = "connect"
    /\ ending' = "none"
    /\ dates' = <<>>
    /\ date_idx' = 0
    /\ all_recordings' = <<>>
    /\ total_count' = 0
    /\ time_correction' = 0
    /\ i' = 0
    /\ result' = "none"
    /\ successful' = 0
    /\ failed' = 0
    /\ skipped' = 0
    /\ deleted' = 0
    /\ attempt' = 0
    /\ outcomes' = <<>>
    /\ started' = <<>>
    /\ requests' = <<>>
    /\ delete_calls' = 0
    /\ fetches' = 0
    /\ passed' = <<>>
    /\ elapsed' = 0
    /\ remaining' = 0
    /\ eta_seconds' = [num |-> 0, den |-> 1]
    /\ recomputed' = <<>>
    /\ UNCHANGED <<remote, disk, dirs, parseVars, progressVars>>

Next ==
    \/ ConnectOk
    \/ ConnectRaises
    \/ GetRecordingsList
    \/ GetRecordings
    \/ Count
    \/ GetTimeCorrection
    \/ RemoteQueryRaises
    \/ NextRecording
    \/ Plan
    \/ PlanRaises
    \/ TransferSucceeds
    \/ TransferRaises
    \/ Tally
    \/ TryDelete
    \/ DeleteAttemptOk
    \/ DeleteAttemptRaises
    \/ Stats
    \/ Summary
    \/ UserInterrupt
    \/ NextRun

Spec == Init /\ [][Next]_vars

\* the same program against a camera whose catalog may list a startTime twice,
\* with different endTime and type
InitDup ==
    /\ run = 1
    /\ DELETE_AFTER_DOWNLOAD \in BOOLEAN
    /\ remote \in CatalogsDup
    /\ disk = [p \in Paths |-> "absent"]
    /\ dirs = {}
    /\ prev = [ending |-> "none", failures |-> FALSE]
    /\ FreshRun
    /\ NoParse
    /\ NoStream

SpecDup == InitDup /\ [][Next]_vars

(***************************************************************************)
(* The parsers on their own: a response is given, one of the two functions *)
(* is called on it.                                                        *)
(***************************************************************************)
InitParse ==
    /\ run = 1
    /\ DELETE_AFTER_DOWNLOAD = FALSE
    /\ remote = <<>>
    /\ disk = [p \in Paths |-> "absent"]
    /\ dirs = {}
    /\ prev = [ending |-> "none", failures |-> FALSE]
    /\ FreshRun
    /\ NoStream
    /\ data \in Responses
    /\ extracted = [fn |-> "none", out |-> <<>>]

ExtractDates ==
    /\ extracted' = [fn |-> "extract_dates", out |-> extract_dates(data)]
    /\ UNCHANGED <<runVars, statsVars, progressVars, data>>

ExtractRecordings ==
    /\ extracted' = [fn |-> "extract_recordings", out |-> extract_recordings(data)]
    /\ UNCHANGED <<runVars, statsVars, progressVars, data>>

NextParse ==
    \/ ExtractDates
    \/ ExtractRecordings

SpecParse == InitParse /\ [][NextParse]_vars

(***************************************************************************)
(* The progress callback on its own (main.py 110-127): the loop over the   *)
(* statuses of one Downloader.  A status has the action under way, a       *)
(* progress and a total; total 0 is a phase of unknown length.             *)
(***************************************************************************)
MaxSignals == 21
MaxLabels == 2

CurrentActions == {"Downloading", "Converting"}
Totals == {0, 40}

Statuses ==
    {[currentAction |-> a, progress |-> p, total |-> t] :
        a \in CurrentActions, p \in 0..40, t \in Totals}

\* int((progress / total_time) * 100); for the totals above the float product
\* is the integer quotient
percent(progress, total_time) == (progress * 100) \div total_time

InitProgress ==
    /\ run = 1
    /\ DELETE_AFTER_DOWNLOAD = FALSE
    /\ remote = <<>>
    /\ disk = [p \in Paths |-> "absent"]
    /\ dirs = {}
    /\ prev = [ending |-> "none", failures |-> FALSE]
    /\ FreshRun
    /\ NoParse
    /\ NoStream

\* one pass of the body of "async for status in downloader.download()"
OnStatus ==
    /\ signals < MaxSignals
    /\ labels < MaxLabels
    /\ \E st \in {x \in Statuses : x.progress <= x.total} :
          /\ status' = st
          /\ IF st.total > 0
             THEN IF /\ percent(st.progress, st.total) # last_percent
                     /\ percent(st.progress, st.total) % 5 = 0
                  THEN /\ report' = "percent"
                       /\ signals' = signals + 1
                       /\ last_percent' = percent(st.progress, st.total)
                       /\ UNCHANGED labels
                  ELSE /\ report' = "none"
                       /\ UNCHANGED <<signals, last_percent, labels>>
             ELSE IF st.currentAction # "Downloading"
                  THEN /\ report' = "label"
                       /\ labels' = labels + 1
                       /\ UNCHANGED <<signals, last_percent>>
                  ELSE /\ report' = "none"
                       /\ UNCHANGED <<signals, last_percent, labels>>
    /\ UNCHANGED <<runVars, statsVars, parseVars>>

\* the stream ends; the next Downloader starts with last_percent = -1
NewDownloader ==
    /\ status.currentAction # "none"
    /\ status' = [currentAction |-> "none", progress |-> 0, total |-> 0]
    /\ last_percent' = -1
    /\ report' = "none"
    /\ signals' = 0
    /\ labels' = 0
    /\ UNCHANGED <<runVars, statsVars, parseVars>>

NextProgress ==
    \/ OnStatus
    \/ NewDownloader

SpecProgress == InitProgress /\ [][NextProgress]_vars

(***************************************************************************)
(* The loop of download_all_videos over a long batch (main.py 253-299),    *)
(* with the clock.  The camera lists one recording many times and its file *)
(* is on disk, so every pass of the loop is a skip; the batch starts where *)
(* line 253 takes start_time.                                              *)
(***************************************************************************)
MaxBatch == 21
MaxElapsed == 3

InitStats ==
    /\ run = 1
    /\ DELETE_AFTER_DOWNLOAD = FALSE
    /\ prev = [ending |-> "none", failures |-> FALSE]
    /\ \E n \in 1..MaxBatch, r \in Recordings :
          /\ remote = <<[k \in 1..n |-> r]>>
          /\ all_recordings = [k \in 1..n |-> r]
          /\ total_count = n
          /\ disk = [p \in Paths |-> IF p = filepath(r) THEN "complete" ELSE "absent"]
          /\ dirs = {<<>>, get_date_folder(r.startTime)}
    /\ dates = <<1>>
    /\ date_idx = 1
    /\ time_correction \in TimeCorrections
    /\ fetches = 1
    /\ pc = "loop"
    /\ ending = "none"
    /\ i = 0
    /\ result = "none"
    /\ successful = 0 /\ failed = 0 /\ skipped = 0 /\ deleted = 0
    /\ attempt = 0
    /\ outcomes = <<>> /\ started = <<>> /\ requests = <<>> /\ delete_calls = 0
    /\ passed = <<>>
    /\ elapsed = 0
    /\ remaining = 0
    /\ eta_seconds = [num |-> 0, den |-> 1]
    /\ recomputed = <<>>
    /\ NoParse
    /\ NoStream

\* a second passes while download_recording is at work
Tick ==
    /\ pc = "plan"
    /\ elapsed < MaxElapsed
    /\ elapsed' = elapsed + 1
    /\ UNCHANGED <<runVars, remaining, eta_seconds, recomputed, parseVars, progressVars>>

NextStats ==
    \/ NextRecording
    \/ Plan
    \/ Tally
    \/ Stats
    \/ Summary
    \/ Tick

SpecStats == InitStats /\ [][NextStats]_vars

(***************************************************************************)
(* Shapes of the state the properties below rely on.                       *)
(***************************************************************************)
TypeOK ==
    /\ run \in 1..MaxRuns
    /\ pc \in {"connect", "getRecordingsList", "getRecordings", "count",
                "getTimeCorrection", "loop", "plan", "transfer", "tally", "try_delete",
                "delete", "stats", "done"}
    /\ ending \in {"none", "nothing", "completed", "interrupted", "critical"}
    /\ DELETE_AFTER_DOWNLOAD \in BOOLEAN
    /\ disk \in [Paths -> {"absent", "partial", "complete"}]
    /\ result \in {"none", "skipped", "True", "False"}
    /\ i \in 0..total_count
    /\ attempt \in 0..Len(delete_attempts)

\* the loop of lines 255-280 is running
Downloading == pc \in {"loop", "plan", "transfer", "tally", "try_delete", "delete", "stats"}

\* the recording download_recording is working on
Current == all_recordings[i]

(***************************************************************************)
(* C1.  At every point between two iterations of the download loop and at  *)
(* the final summary, successful + skipped + failed equals the number of   *)
(* recordings processed so far, whatever the outcomes were.                *)
(***************************************************************************)
C1_CountersSumToProcessed ==
    /\ pc \in {"loop", "stats"} =>
          /\ successful + skipped + failed = Len(outcomes)
          /\ Len(outcomes) = i
    /\ ending = "completed" =>
          /\ successful + skipped + failed = Len(outcomes)
          /\ Len(outcomes) = total_count

\* a completed run with two different outcomes
C1_Witness ==
    /\ ending = "completed"
    /\ total_count = 2
    /\ successful = 1
    /\ failed = 1

(***************************************************************************)
(* C2.  An exception of the streaming collaborator does not leave          *)
(* download_recording: the recording's outcome is Failed, failed grows by  *)
(* exactly 1 while successful and skipped keep their values, and the loop  *)
(* goes on with every later recording.                                     *)
(***************************************************************************)
C2_TransferFailureIsContained ==
    [][/\ (pc = "transfer" /\ ending' # "interrupted") =>
             /\ ending' = "none"
             /\ pc' = "tally"
             /\ result' \in {"True", "False"}
             /\ UNCHANGED counters
       /\ (pc = "tally" /\ result = "False" /\ ending' # "interrupted") =>
             /\ failed' = failed + 1
             /\ successful' = successful
             /\ skipped' = skipped
             /\ outcomes' = Append(outcomes, "False")
             /\ pc' = "stats"
       /\ (pc = "stats" /\ ending' # "interrupted") => pc' = "loop"
       /\ (pc = "loop" /\ i < total_count /\ ending' # "interrupted") =>
             /\ pc' = "plan"
             /\ i' = i + 1
       /\ (ending = "none" /\ ending' = "completed") => Len(outcomes) = total_count
      ]_vars

\* a failed transfer was followed by the processing of the later recordings
C2_Witness ==
    /\ ending = "completed"
    /\ total_count = 2
    /\ outcomes = <<"False", "True">>
    /\ failed = 1
    /\ successful = 1

(***************************************************************************)
(* C3.  A recording whose artifact path exists on disk when it is          *)
(* processed is always skipped: no transfer is started and the file is     *)
(* left as it is, whether it is complete or not.                           *)
(***************************************************************************)
C3_ExistingFileIsSkipped ==
    [][(pc = "plan" /\ disk[filepath(Current)] # "absent") =>
          /\ pc' # "transfer"
          /\ started' = started
          /\ disk' = disk
          /\ ending' = "none" => (pc' = "tally" /\ result' = "skipped")
      ]_vars

\* a partial file was enough for the skip
C3_Witness ==
    /\ pc = "tally"
    /\ result = "skipped"
    /\ disk[filepath(Current)] = "partial"

(***************************************************************************)
(* C4.  As claimed: a second complete run against the same catalog and     *)
(* output directory downloads nothing, it ends with successful = 0 and     *)
(* skipped = number of recordings.  This fails when a transfer of the      *)
(* first run failed and left no file: the second run fetches it again.     *)
(***************************************************************************)
C4_Original ==
    (run >= 2 /\ prev.ending = "completed" /\ ending = "completed") =>
        /\ successful = 0
        /\ skipped = total_count

(***************************************************************************)
(* C4, amended.  When the earlier run completed with failed = 0, the next  *)
(* run against the same catalog and output directory starts no transfer:   *)
(* every recording it processes is Skipped, and it ends with               *)
(* successful = 0, failed = 0 and skipped = number of recordings.          *)
(***************************************************************************)
C4_SecondRunSkipsAll ==
    (run >= 2 /\ prev.ending = "completed" /\ ~prev.failures) =>
        /\ started = <<>>
        /\ pc # "transfer"
        /\ \A k \in 1..Len(outcomes) : outcomes[k] = "skipped"
        /\ successful = 0
        /\ failed = 0
        /\ ending = "completed" => skipped = total_count

C4_Witness ==
    /\ run = 2
    /\ prev.ending = "completed"
    /\ ~prev.failures
    /\ ending = "completed"
    /\ total_count = 2
    /\ skipped = 2

(***************************************************************************)
(* C5.  As claimed: the first run ends with successful = recordings        *)
(* processed - failures.  This fails when two recordings of the catalog    *)
(* share a startTime: the second one is skipped, not downloaded.           *)
(***************************************************************************)
C5_Original ==
    (run = 1 /\ ending = "completed") => successful = total_count - failed

\* no two recordings of the sequence have the same startTime
DistinctStartTimes(recs) ==
    \A j, k \in 1..Len(recs) : recs[j].startTime = recs[k].startTime => j = k

(***************************************************************************)
(* C5, amended.  A first run into an empty output directory ends with      *)
(* successful = recordings processed - failed - skipped; when the          *)
(* startTimes of the catalog are pairwise distinct nothing is skipped and  *)
(* successful = recordings processed - failed, so a clean run over N such  *)
(* recordings ends with successful = N.                                    *)
(***************************************************************************)
C5_FirstRunSuccessful ==
    (run = 1 /\ ending = "completed") =>
        /\ successful = total_count - failed - skipped
        /\ DistinctStartTimes(all_recordings) =>
              /\ skipped = 0
              /\ successful = total_count - failed
              /\ failed = 0 => successful = total_count

\* a clean first run over distinct recordings
C5_Witness ==
    /\ run = 1
    /\ ending = "completed"
    /\ total_count = 2
    /\ DistinctStartTimes(all_recordings)
    /\ failed = 0
    /\ successful = 2

(***************************************************************************)
(* C6.  A delete is attempted for a recording only after the transfer of   *)
(* that recording ended Succeeded in this run, never for a Skipped or      *)
(* Failed one; so deleted never exceeds successful.                        *)
(***************************************************************************)
C6_DeleteOnlyAfterSuccess ==
    /\ pc \in {"try_delete", "delete"} =>
          /\ result = "True"
          /\ Len(outcomes) = i
          /\ outcomes[i] = "True"
          /\ started # <<>>
          /\ started[Len(started)] = i
    /\ \A k \in 1..Len(requests) :
          /\ requests[k].index \in 1..Len(outcomes)
          /\ outcomes[requests[k].index] = "True"
    /\ delete_calls <= successful
    /\ deleted <= successful

\* one recording was downloaded and deleted, the other was skipped or failed
C6_Witness ==
    /\ ending = "completed"
    /\ total_count = 2
    /\ deleted = 1
    /\ successful = 1
    /\ skipped + failed = 1

(***************************************************************************)
(* C7.  As claimed: with the flag off try_delete_recording is never        *)
(* invoked, no delete request is sent and deleted stays 0.  The function   *)
(* is in fact called after every successful download (line 263); it is its *)
(* own guard (lines 139-140) that makes the call a no-op.                  *)
(***************************************************************************)
C7_Original ==
    ~DELETE_AFTER_DOWNLOAD =>
        /\ delete_calls = 0
        /\ requests = <<>>
        /\ deleted = 0

(***************************************************************************)
(* C7, amended.  With the flag off try_delete_recording is still called    *)
(* after each successful download but returns false at once: no delete     *)
(* request is sent to the device and deleted stays 0, however many         *)
(* recordings were downloaded.                                             *)
(***************************************************************************)
C7_FlagOffSendsNothing ==
    ~DELETE_AFTER_DOWNLOAD =>
        /\ pc # "delete"
        /\ attempt = 0
        /\ requests = <<>>
        /\ deleted = 0
        /\ pc \in {"loop", "stats"} => delete_calls = successful

C7_Witness ==
    /\ ~DELETE_AFTER_DOWNLOAD
    /\ ending = "completed"
    /\ successful = 2
    /\ delete_calls = 2
    /\ deleted = 0

(***************************************************************************)
(* C8.  With the flag on try_delete_recording sends the request shapes in  *)
(* their fixed order (deleteRecording, then do), stops at the first shape  *)
(* that does not raise and returns true without trying a later one; when   *)
(* every shape raises it returns false and raises nothing to its caller.   *)
(***************************************************************************)
C8_DeleteShapesInOrder ==
    [][/\ Len(requests') <= Len(delete_attempts)
       /\ \A k \in 1..Len(requests') :
             /\ requests'[k].method = delete_attempts[k]
             /\ k < Len(requests') => requests'[k].raised
       /\ pc' = "delete" =>
             /\ DELETE_AFTER_DOWNLOAD
             /\ Len(requests') = attempt' - 1
             /\ requests' # <<>> => requests'[Len(requests')].raised
       /\ (pc = "delete" /\ ending' # "interrupted") =>
             /\ Len(requests') = Len(requests) + 1
             /\ ending' = "none"
             /\ UNCHANGED <<successful, failed, skipped, outcomes>>
             /\ IF ~requests'[Len(requests')].raised
                THEN pc' = "stats" /\ deleted' = deleted + 1
                ELSE /\ deleted' = deleted
                     /\ pc' = IF Len(requests') < Len(delete_attempts)
                              THEN "delete" ELSE "stats"
      ]_vars

\* the first shape raised and the second one went through
C8_Witness ==
    /\ pc = "stats"
    /\ Len(requests) = 2
    /\ requests[1] = [index |-> i, method |-> "deleteRecording", raised |-> TRUE]
    /\ requests[2] = [index |-> i, method |-> "do", raised |-> FALSE]
    /\ deleted = 1

(***************************************************************************)
(* C9.  Within one run the recordings are processed one at a time in       *)
(* catalog order (date by date, then in the order the camera returned      *)
(* them): the transfer of recording k+1 never starts before recording k    *)
(* has its outcome, each recording gets one outcome, and the transfer is   *)
(* started at most once per recording.                                     *)
(***************************************************************************)
C9_SequentialSingleAttempt ==
    /\ Downloading =>
          /\ all_recordings = Concat(remote)
          /\ total_count = Len(all_recordings)
          /\ i <= total_count
    /\ Len(outcomes) <= i
    /\ i <= Len(outcomes) + 1
    /\ pc \in {"plan", "transfer", "tally"} => Len(outcomes) = i - 1
    /\ pc = "transfer" => (started # <<>> /\ started[Len(started)] = i)
    /\ \A k \in 1..Len(started) :
          /\ started[k] \in 1..i
          /\ k < Len(started) => started[k] < started[k + 1]
          /\ started[k] <= Len(outcomes) => outcomes[started[k]] # "skipped"
    /\ \A k \in 1..Len(outcomes) :
          outcomes[k] # "skipped" => \E j \in 1..Len(started) : started[j] = k
    /\ ending = "completed" => Len(outcomes) = total_count

\* two dates, the later recording listed first: processed in catalog order, once each
C9_Witness ==
    /\ ending = "completed"
    /\ Len(remote) = 2
    /\ Len(remote[1]) = 1
    /\ Len(remote[2]) = 1
    /\ remote[1][1].startTime = 2
    /\ remote[2][1].startTime = 1
    /\ all_recordings[1].startTime = 2
    /\ started = <<1, 2>>
    /\ outcomes = <<"True", "False">>

(***************************************************************************)
(* C10.  As claimed: an interrupt during Downloading stops the loop after  *)
(* the current recording, so a recording whose transfer has started still  *)
(* gets its outcome.  The interrupt in fact ends the run at once: the      *)
(* transfer in flight is abandoned and its recording gets no outcome.      *)
(***************************************************************************)
C10_Original ==
    ending = "interrupted" =>
        \A k \in 1..Len(started) :
            /\ started[k] <= Len(outcomes)
            /\ started[k] <= successful + skipped + failed

(***************************************************************************)
(* C10, amended.  An interrupt during Downloading stops the loop at once;  *)
(* the recording in progress is abandoned without an outcome.  No transfer *)
(* of a later recording is started after the interrupt, no counter (failed *)
(* in particular) is incremented for it, every artifact completed before   *)
(* the interrupt is still present, and a later run skips those artifacts.  *)
(***************************************************************************)
C10_InterruptStopsAtOnce ==
    [][/\ (Downloading /\ ending' = "interrupted") =>
             /\ pc' = "done"
             /\ UNCHANGED <<successful, failed, skipped, deleted>>
             /\ UNCHANGED <<outcomes, started, requests, i>>
             /\ \A p \in Paths : disk[p] = "complete" => disk'[p] = "complete"
       /\ ending = "interrupted" =>
             /\ pc = "done"
             /\ UNCHANGED disk
             /\ started' = <<>>
       /\ \A p \in Paths : disk[p] = "complete" => disk'[p] = "complete"
       /\ (prev.ending = "interrupted" /\ pc = "plan"
              /\ disk[filepath(Current)] = "complete" /\ ending' = "none") =>
             /\ pc' = "tally"
             /\ result' = "skipped"
      ]_vars

\* the run after an interrupted one skips an artifact completed before the interrupt
C10_Witness ==
    /\ run = 2
    /\ prev.ending = "interrupted"
    /\ pc = "tally"
    /\ result = "skipped"
    /\ disk[filepath(Current)] = "complete"

(***************************************************************************)
(* C11.  As claimed: a file present at a recording's artifact path is      *)
(* always the result of a transfer that completed, over any sequence of    *)
(* runs, failed transfers and interrupts; so a recording whose transfer    *)
(* failed or was abandoned is never skipped as already present.            *)
(* download_recording hands the final file name to the Downloader (lines   *)
(* 100-108) and removes nothing when the transfer raises (132-134) or is   *)
(* interrupted: what the Downloader had written stays at the final path,   *)
(* and the existence check of line 87 of the next run skips it.            *)
(***************************************************************************)
C11_ExistsImpliesComplete ==
    /\ \A p \in Paths : disk[p] \in {"absent", "complete"}
    /\ (pc = "tally" /\ result = "skipped") => disk[filepath(Current)] = "complete"

\* the loop indices of the sequence started
Indices(seq) == {seq[k] : k \in 1..Len(seq)}

(***************************************************************************)
(* C12.  Two recordings with the same startTime map to the same directory  *)
(* and file name whatever their endTime and type.  When both occur in one  *)
(* run and the first is downloaded, the second is Skipped: no second       *)
(* transfer is made and the file of the first stays as it was written.     *)
(***************************************************************************)
C12_SameStartTimeIsDuplicate ==
    /\ pc = "plan" =>
          \A r \in RecordingsDup :
              r.startTime = Current.startTime => filepath(r) = filepath(Current)
    /\ \A j, k \in 1..Len(all_recordings) :
          (/\ j < k
           /\ all_recordings[j].startTime = all_recordings[k].startTime
           /\ j <= Len(outcomes)
           /\ outcomes[j] = "True") =>
              /\ filepath(all_recordings[j]) = filepath(all_recordings[k])
              /\ disk[filepath(all_recordings[j])] = "complete"
              /\ k \notin Indices(started)
              /\ k <= Len(outcomes) => outcomes[k] = "skipped"

\* same startTime, other endTime and type: downloaded once, then skipped
C12_Witness ==
    /\ ending = "completed"
    /\ total_count = 2
    /\ all_recordings[1].startTime = all_recordings[2].startTime
    /\ all_recordings[1].endTime # all_recordings[2].endTime
    /\ all_recordings[1].vedio_type # all_recordings[2].vedio_type
    /\ outcomes = <<"True", "skipped">>
    /\ started = <<1>>
    /\ disk[filepath(all_recordings[2])] = "complete"

(***************************************************************************)
(* C13.  A run whose flattened recording sequence is empty (no dates, or   *)
(* dates without recordings) goes straight to its end with nothing to do:  *)
(* the time correction is not fetched, no Downloader is started, no delete *)
(* is tried, every counter is as it was at the start, no statistics are    *)
(* made and the final summary is not reached.                              *)
(***************************************************************************)
C13_EmptyCatalogIsNothingToDo ==
    /\ ending = "nothing" =>
          /\ all_recordings = <<>>
          /\ fetches = 0
          /\ started = <<>> /\ passed = <<>>
          /\ delete_calls = 0 /\ requests = <<>>
          /\ successful = 0 /\ failed = 0 /\ skipped = 0 /\ deleted = 0
          /\ outcomes = <<>> /\ recomputed = <<>>
    /\ (all_recordings = <<>> /\ pc \notin {"connect", "getRecordingsList",
                                            "getRecordings", "count"}) =>
          /\ pc = "done"
          /\ ending \in {"nothing", "interrupted", "critical"}
          /\ fetches = 0
    /\ ending = "completed" => total_count > 0

\* a camera that lists dates, none of which has a recording
C13_Witness ==
    /\ ending = "nothing"
    /\ dates # <<>>
    /\ date_idx = Len(dates)
    /\ all_recordings = <<>>
    /\ fetches = 0

(***************************************************************************)
(* C14.  As claimed: the process ends with a non-zero status when the      *)
(* connection to the camera fails or an exception leaves the scan of the   *)
(* catalog, and with status zero when the only errors were failed          *)
(* transfers or failed deletions; a failed connection ends the run before  *)
(* any catalog query, transfer or counter.  The code does not keep the     *)
(* first part: main() catches every Exception, prints it and returns.      *)
(***************************************************************************)
C14_FatalErrorsExitNonZero ==
    [][/\ (/\ pc \in {"connect", "getRecordingsList", "getRecordings"}
           /\ ending' = "critical") => exit_status(ending') # 0
       /\ ending' = "completed" => exit_status(ending') = 0
       /\ (pc = "connect" /\ ending' = "critical") =>
             /\ dates' = <<>> /\ all_recordings' = <<>>
             /\ started' = <<>> /\ outcomes' = <<>>
             /\ fetches' = 0]_vars

\* the values, in order, of the entries of one item that have the given key
\* prefix, a mapping as value and all the fields needed
RECURSIVE WantedEntries(_, _, _)
WantedEntries(entries, prefix, needed) ==
    IF entries = <<>> THEN <<>>
    ELSE LET e == Head(entries)
             wanted == /\ e.key[1] = prefix
                       /\ e.value.kind = "dict"
                       /\ \A f \in needed : f \in DOMAIN e.value.fields
         IN  (IF wanted THEN <<e.value.fields>> ELSE <<>>)
                 \o WantedEntries(Tail(entries), prefix, needed)

\* the same over the items of a response, in response order
RECURSIVE WantedItems(_, _, _)
WantedItems(items, prefix, needed) ==
    IF items = <<>> THEN <<>>
    ELSE (IF Head(items).kind = "dict"
          THEN WantedEntries(Head(items).entries, prefix, needed)
          ELSE <<>>)
             \o WantedItems(Tail(items), prefix, needed)

Wanted(response, prefix, needed) ==
    IF response.kind = "list" THEN WantedItems(response.items, prefix, needed) ELSE <<>>

(***************************************************************************)
(* C15.  extract_recordings returns exactly, in response order, the values *)
(* of the entries whose key starts with search_video_results_, whose value *)
(* is a mapping and which have startTime and endTime; extract_dates        *)
(* returns the date of the search_results_ entries that have one.  Every   *)
(* other entry and a response that is no list are passed over: the result  *)
(* is then the empty list, nothing is raised.                              *)
(***************************************************************************)
C15_ParsersKeepWellFormedEntries ==
    /\ extracted.fn = "extract_recordings" =>
          extracted.out = Wanted(data, "search_video_results_", {"startTime", "endTime"})
    /\ extracted.fn = "extract_dates" =>
          LET kept == Wanted(data, "search_results_", {"date"})
          IN  extracted.out = [k \in 1..Len(kept) |-> kept[k].date]
    /\ (extracted.fn # "none" /\ data.kind # "list") => extracted.out = <<>>

\* an unrecognised key next to a well-formed recording, after an item that
\* lacks endTime: exactly the well-formed recording is returned
C15_Witness ==
    /\ extracted.fn = "extract_recordings"
    /\ data.kind = "list"
    /\ Len(data.items) = 2
    /\ data.items[1] = [kind |-> "dict",
                        entries |-> <<[key |-> <<"search_video_results_", 1>>,
                                       value |-> Mapping([startTime |-> 1])]>>]
    /\ data.items[2].kind = "dict"
    /\ Len(data.items[2].entries) = 2
    /\ extracted.out = <<[startTime |-> 2, endTime |-> 3]>>

\* the phase a run is in: 1 Scanning, 2 Counting, 3 Downloading, 4 Summarizing
\* and Done; 0 before the camera is connected
Phase ==
    CASE pc = "connect" -> 0
      [] pc \in {"getRecordingsList", "getRecordings"} -> 1
      [] pc = "count" -> 2
      [] pc = "getTimeCorrection" \/ Downloading -> 3
      [] pc = "done" -> 4

(***************************************************************************)
(* C16.  A run goes through Scanning, Counting, Downloading, Summarizing   *)
(* and Done in this order and never back.  Every date has been queried     *)
(* and counted before the first Downloader is started; the time            *)
(* correction is fetched once per run, after the count and before the      *)
(* first Downloader, it does not change afterwards and every Downloader    *)
(* of the run is given it; the summary is reached only when every          *)
(* recording has its outcome.                                              *)
(***************************************************************************)
C16_PhasesInOrder ==
    /\ [](/\ fetches <= 1
          /\ fetches = 1 =>
                /\ date_idx = Len(dates)
                /\ all_recordings = Concat(remote)
                /\ total_count = Len(all_recordings)
                /\ time_correction \in TimeCorrections
          /\ started # <<>> => fetches = 1
          /\ Len(passed) = Len(started)
          /\ \A k \in 1..Len(passed) : passed[k] = time_correction
          /\ ending = "completed" =>
                /\ fetches = 1
                /\ i = total_count
                /\ Len(outcomes) = total_count)
    /\ [][run' = run =>
             /\ Phase' >= Phase
             /\ fetches' # fetches => (pc = "getTimeCorrection" /\ started = <<>>)
             /\ fetches' = fetches => time_correction' = time_correction]_vars

\* a run over two dates that started two Downloaders and reached its summary
C16_Witness ==
    /\ ending = "completed"
    /\ Len(dates) = 2
    /\ fetches = 1
    /\ time_correction = 1
    /\ passed = <<1, 1>>
    /\ Len(outcomes) = 2

(***************************************************************************)
(* C17.  As claimed: while one Downloader is read, a percentage line is    *)
(* printed only for a status with total > 0 whose percentage is on a       *)
(* 5-point boundary, and whatever the statuses are, at most 20 percentage  *)
(* lines are printed for the transfer.  The code prints on every boundary  *)
(* value that differs from the last one printed, the value 0 included.     *)
(***************************************************************************)
C17_AtMostTwentySignals ==
    /\ report = "percent" =>
          /\ status.total > 0
          /\ percent(status.progress, status.total) % 5 = 0
    /\ signals <= 20

(***************************************************************************)
(* C18.  As claimed: a status with total 0 never prints a percentage, and  *)
(* its action is printed only when the action changes: when a total-0      *)
(* status follows a total-0 status of the same action, nothing is printed  *)
(* for the second.  The code keeps no record of the last action printed.   *)
(***************************************************************************)
C18_LabelOnlyOnTransition ==
    [][/\ status'.total = 0 => signals' <= signals
       /\ (/\ status.currentAction # "none"
           /\ status.total = 0
           /\ status'.total = 0
           /\ status'.currentAction = status.currentAction) =>
              labels' = labels]_vars

\* the recordings whose pass of the loop is over, statistics included
Passed == IF pc \in {"loop", "done"} THEN i ELSE i - 1

(***************************************************************************)
(* C19.  In a run over N >= 1 recordings the statistics are made after     *)
(* the i-th recording exactly when i is a multiple of 10 or i = N, once    *)
(* when both hold; they are made with remaining = N - i and                *)
(* ETA = remaining x (elapsed / i), so that on the last recording          *)
(* remaining and the ETA are 0.                                            *)
(***************************************************************************)
C19_StatsEveryTenAndLast ==
    /\ [](recomputed = SelectSeq([k \in 1..Passed |-> k],
                                 LAMBDA k : k % 10 = 0 \/ k = total_count))
    /\ [][recomputed' # recomputed =>
             /\ remaining' = total_count - i
             /\ eta_seconds'.den = i
             /\ eta_seconds'.num = (total_count - i) * elapsed
             /\ i = total_count => (remaining' = 0 /\ eta_seconds'.num = 0)]_vars

\* a batch of 20 that took time: statistics after the 10th and, once, after
\* the 20th, which is a multiple of 10 and the last
C19_Witness ==
    /\ ending = "completed"
    /\ total_count = 20
    /\ recomputed = <<10, 20>>
    /\ elapsed = 3
    /\ remaining = 0
    /\ eta_seconds = [num |-> 0, den |-> 20]

(***************************************************************************)
(* C20.  Only an exception raised inside the transfer becomes a failed     *)
(* download.  An exception raised while a recording is planned (making     *)
(* its date folder, looking for its file) is counted nowhere: it ends the  *)
(* run as a critical error, with the counters as they were, no outcome     *)
(* for the recording, no later recording and no summary.                   *)
(***************************************************************************)
C20_PlanningErrorEndsBatch ==
    [][/\ (result' = "False" /\ result # "False") => pc = "transfer"
       /\ failed' > failed => (pc = "tally" /\ result = "False")
       /\ (pc = "plan" /\ ending' = "critical") =>
             /\ pc' = "done"
             /\ UNCHANGED <<counters, outcomes, started, i, disk, recomputed>>
       /\ (pc = "done" /\ ending = "critical") =>
             /\ run' = run + 1
             /\ pc' = "connect"]_vars

\* planning the second recording raised after the first was downloaded: the
\* run is over with one success, no failure and one recording untouched
C20_Witness ==
    /\ ending = "critical"
    /\ fetches = 1
    /\ total_count = 2
    /\ i = 2
    /\ outcomes = <<"True">>
    /\ successful = 1
    /\ failed = 0
    /\ started = <<1>>

=============================================================================
